---------------------------- MODULE Spec2Model ----------------------------
(***************************************************************************)
(* A model of src/analysis.py: the Monte Carlo option pricing pipeline.   *)
(*                                                                         *)
(* main() runs makedirs, monte_carlo_option_pricing, the matrix benchmark, *)
(* the aggregation and the two to_csv writes in sequence; an exception in  *)
(* any of them unwinds to the interpreter, which exits with status 1.      *)
(*                                                                         *)
(* Floating-point values are abstracted to their IEEE-754 class (NaN, the  *)
(* two infinities, negative, zero, positive).  Every arithmetic operator   *)
(* returns the SET of outcomes binary64 arithmetic can produce for         *)
(* operands of the given classes, each with the IEEE exceptions it         *)
(* signals, so that a property of the model holds for every concrete       *)
(* value.  Arrays live in a heap of numpy objects (owner buffers and       *)
(* views); the global np.random state is the count of variates drawn.      *)
(***************************************************************************)
EXTENDS Integers, Sequences, FiniteSets, TLC

\* Bounds of the model: the largest n_sims and n_steps tried.
MaxPaths == 2
MaxSteps == 2

None == "None"

\* A result dict not yet assigned, and the test for one that is.
Unset == << >>
IsSet(x) == DOMAIN x # {}

(***************************************************************************)
(* IEEE-754 binary64, abstracted to value classes.                         *)
(***************************************************************************)
FClass == {"nan", "ninf", "neg", "zero", "pos", "pinf"}
Finite == {"neg", "zero", "pos"}
FFlags == {"overflow", "underflow", "invalid", "divbyzero"}

ok(c)     == [v |-> c, e |-> {}]
ex(c, f)  == [v |-> c, e |-> {f}]

IsInf(a)  == a \in {"ninf", "pinf"}
Sign(a)   == IF a \in {"neg", "ninf"} THEN -1 ELSE IF a \in {"pos", "pinf"} THEN 1 ELSE 0
FinOf(s)  == IF s < 0 THEN "neg" ELSE IF s > 0 THEN "pos" ELSE "zero"
InfOf(s)  == IF s < 0 THEN "ninf" ELSE "pinf"

\* x >= 0 and x > 0 as the comparison operators decide them (false for NaN).
GeZero(a) == a \in {"zero", "pos", "pinf"}
GtZero(a) == a \in {"pos", "pinf"}

FNeg(a) ==
    CASE a = "neg"  -> "pos"
      [] a = "pos"  -> "neg"
      [] a = "ninf" -> "pinf"
      [] a = "pinf" -> "ninf"
      [] OTHER      -> a

FAbs(a) ==
    CASE a = "neg"  -> "pos"
      [] a = "ninf" -> "pinf"
      [] OTHER      -> a

\* a + b
FAdd(a, b) ==
    IF a = "nan" \/ b = "nan" THEN {ok("nan")}
    ELSE IF IsInf(a) /\ IsInf(b) THEN (IF a = b THEN {ok(a)} ELSE {ex("nan", "invalid")})
    ELSE IF IsInf(a) THEN {ok(a)}
    ELSE IF IsInf(b) THEN {ok(b)}
    ELSE IF a = "zero" THEN {ok(b)}
    ELSE IF b = "zero" THEN {ok(a)}
    ELSE IF a = b THEN {ok(a), ex(InfOf(Sign(a)), "overflow")}
    ELSE {ok("neg"), ok("zero"), ok("pos")}

\* a - b
FSub(a, b) == FAdd(a, FNeg(b))

\* a * b
FMul(a, b) ==
    IF a = "nan" \/ b = "nan" THEN {ok("nan")}
    ELSE IF (a = "zero" /\ IsInf(b)) \/ (IsInf(a) /\ b = "zero") THEN {ex("nan", "invalid")}
    ELSE IF a = "zero" \/ b = "zero" THEN {ok("zero")}
    ELSE IF IsInf(a) \/ IsInf(b) THEN {ok(InfOf(Sign(a) * Sign(b)))}
    ELSE {ok(FinOf(Sign(a) * Sign(b))),
          ex("zero", "underflow"),
          ex(InfOf(Sign(a) * Sign(b)), "overflow")}

\* a / b on numpy float64 scalars (no exception is raised: numpy warns)
FDiv(a, b) ==
    IF a = "nan" \/ b = "nan" THEN {ok("nan")}
    ELSE IF (IsInf(a) /\ IsInf(b)) \/ (a = "zero" /\ b = "zero") THEN {ex("nan", "invalid")}
    ELSE IF IsInf(a) THEN {ok(InfOf(Sign(a) * (IF b = "zero" THEN 1 ELSE Sign(b))))}
    ELSE IF IsInf(b) \/ a = "zero" THEN {ok("zero")}
    ELSE IF b = "zero" THEN {ex(InfOf(Sign(a)), "divbyzero")}
    ELSE {ok(FinOf(Sign(a) * Sign(b))),
          ex("zero", "underflow"),
          ex(InfOf(Sign(a) * Sign(b)), "overflow")}

\* a * c and a / c for a constant c >= 1 or a count n >= 1: no overflow when
\* dividing, no underflow when multiplying.
FDivCount(a) == IF a \in {"neg", "pos"} THEN {ok(a), ex("zero", "underflow")} ELSE {ok(a)}
FMulBig(a)   == IF a \in {"neg", "pos"} THEN {ok(a), ex(InfOf(Sign(a)), "overflow")} ELSE {ok(a)}

\* np.sqrt(a)
FSqrt(a) ==
    IF a \in {"neg", "ninf"} THEN {ex("nan", "invalid")} ELSE {ok(a)}

\* np.exp(a)
FExp(a) ==
    CASE a = "nan"  -> {ok("nan")}
      [] a = "ninf" -> {ok("zero")}
      [] a = "neg"  -> {ok("pos"), ex("zero", "underflow")}
      [] a = "zero" -> {ok("pos")}
      [] a = "pos"  -> {ok("pos"), ex("pinf", "overflow")}
      [] a = "pinf" -> {ok("pinf")}

\* np.maximum(a, 0): NaN propagates
FMax0(a) ==
    CASE a = "nan"  -> "nan"
      [] a \in {"ninf", "neg", "zero"} -> "zero"
      [] OTHER      -> a

\* Sequencing: apply F to every outcome of S, apply Op to every pair of
\* outcomes of S1 and S2; the exceptions signalled accumulate.
Then(S, F(_)) ==
    UNION { { [v |-> y.v, e |-> x.e \cup y.e] : y \in F(x.v) } : x \in S }

Bin(Op(_, _), S1, S2) ==
    UNION { { [v |-> z.v, e |-> x.e \cup y.e \cup z.e] : z \in Op(x.v, y.v) } :
            <<x, y>> \in S1 \X S2 }

Map(S, f(_)) == { [v |-> f(x.v), e |-> x.e] : x \in S }


(***************************************************************************)
(* The numerics of monte_carlo_option_pricing, line by line.               *)
(***************************************************************************)
\* The classes a standard-normal variate can take.
ZClass == {"neg", "zero", "pos"}

\* dt = T / n_steps for n_steps # 0 (Python float by int)
DtSet(T, n_steps) ==
    IF T = "zero" THEN {ok("zero")}
    ELSE {ok(FinOf(Sign(T) * (IF n_steps < 0 THEN -1 ELSE 1))), ex("zero", "underflow")}

\* sigma**2 when Python's float pow does not raise OverflowError
Sigma2Set(sigma) ==
    IF sigma = "zero" THEN {ok("zero")} ELSE {ok("pos"), ex("zero", "underflow")}

\* drift = (r - 0.5 * sigma**2) * dt
DriftSet(r, sigma, dt) ==
    Bin(FMul, Bin(FSub, {ok(r)}, Then(Sigma2Set(sigma), FDivCount)), {ok(dt)})

\* sigma * np.sqrt(dt), the scalar that multiplies Z
VolSet(sigma, dt) == Bin(FMul, {ok(sigma)}, FSqrt(dt))

\* One entry of drift + diffusion, for any class of the variate Z[t, i]
IncSet(drift, vol) ==
    UNION { Bin(FAdd, {ok(drift)}, FMul(vol, z)) : z \in ZClass }

\* A variant of PriceOf that leaves out np.exp: S0 * c.
PriceWithoutExp(S0, c) == Bin(FMul, {ok(S0)}, {ok(c)})

\* One entry of S0 * np.exp(c), c the cumulative sum at that entry
PriceOf(S0, c) == Bin(FMul, {ok(S0)}, FExp(c))

\* The cumulative sum down one column at row t (np.cumsum, axis=0), with
\* the exceptions of the price entries of the rows above it.
RECURSIVE CumAt(_, _, _, _)
CumAt(t, drift, vol, S0) ==
    IF t = 1 THEN IncSet(drift, vol)
    ELSE Bin(FAdd,
             UNION { { [v |-> c.v, e |-> c.e \cup p.e] : p \in PriceOf(S0, c.v) } :
                     c \in CumAt(t - 1, drift, vol, S0) },
             IncSet(drift, vol))

\* price_paths[-1, i]: what the last row of one column can hold
ColumnSet(n_steps, drift, vol, S0) ==
    Then(CumAt(n_steps, drift, vol, S0), LAMBDA c : PriceOf(S0, c))

\* A variant of PayoffSet that leaves out np.maximum: ST - K.
PayoffWithoutFloor(st, K) == FSub(st, K)

\* np.maximum(ST - K, 0) for one path
PayoffSet(st, K) == Map(FSub(st, K), FMax0)

\* np.add.reduce over a vector of value sets
RECURSIVE SumSets(_, _)
SumSets(sets, k) ==
    IF k = 0 THEN {ok("zero")}
    ELSE IF k = 1 THEN sets[1]
    ELSE Bin(FAdd, SumSets(sets, k - 1), sets[k])

\* np.mean(vec)
MeanSet(vec) ==
    IF Len(vec) = 0 THEN {ex("nan", "invalid")}
    ELSE Then(SumSets([i \in 1..Len(vec) |-> {ok(vec[i])}], Len(vec)), FDivCount)

\* np.std(vec): sqrt(mean(abs(vec - mean(vec))**2))
StdSet(vec) ==
    IF Len(vec) = 0 THEN {ex("nan", "invalid")}
    ELSE UNION {
           { [v |-> s.v, e |-> m.e \cup s.e] :
             s \in Then(Then(SumSets([i \in 1..Len(vec) |->
                                        Then(FSub(vec[i], m.v), LAMBDA d : FMul(d, d))],
                                     Len(vec)),
                             FDivCount),
                        FSqrt) } :
           m \in MeanSet(vec) }

\* np.exp(-r * T)
DiscountSet(r, T) == Then(FMul(FNeg(r), T), FExp)

\* np.sqrt(n_sims) for n_sims >= 0
SqrtCount(n) == IF n = 0 THEN "zero" ELSE "pos"

\* std_error = np.std(payoffs) / np.sqrt(n_sims)
StdErrorSet(payoffs, n_sims) == Bin(FDiv, StdSet(payoffs), {ok(SqrtCount(n_sims))})

\* option_price = np.exp(-r * T) * np.mean(payoffs)
OptionPriceSet(payoffs, r, T) == Bin(FMul, DiscountSet(r, T), MeanSet(payoffs))

\* The exceptions signalled by the chosen outcomes of a vector
FlagsOf(f) == UNION { f[i].e : i \in DOMAIN f }

(***************************************************************************)
(* Program constants.                                                      *)
(***************************************************************************)
OUTPUT_DIR  == "/app/output"
OUTPUT_FILE == "analysis_results.csv"

\* A variant of STATS_FILE: the second table saved under the first one's path.
StatsFileIsOutputFile == OUTPUT_FILE

STATS_FILE  == "terminal_price_stats.csv"

\* size = 5000 and the eigenvalue block C[:1000, :1000]
size      == 5000
eig_block == 1000

\* The keyword defaults of monte_carlo_option_pricing: S0=100.0, K=105.0,
\* T=1.0, r=0.05, sigma=0.2, by class.
DefaultMarket == [S0 |-> "pos", K |-> "pos", T |-> "pos", r |-> "pos", sigma |-> "pos"]

\* Every finite market parameter a caller can pass, by class.
AnyMarket == [S0 : Finite, K : Finite, T : Finite, r : Finite, sigma : Finite]

\* The path and step counts tried: invalid (negative, zero) and valid ones.
PathCounts == -1 .. MaxPaths
StepCounts == -1 .. MaxSteps

(***************************************************************************)
(* State.                                                                  *)
(***************************************************************************)
VARIABLES
    pc,              \* the statement control is at
    params,          \* the arguments of monte_carlo_option_pricing
    dir_exists,      \* whether OUTPUT_DIR exists
    files,           \* the files of OUTPUT_DIR: name -> table
    rng,             \* np.random's global state: the variates drawn so far
    heap,            \* the live numpy arrays: id -> [shape, base, data]
    locals,          \* the locals of the function being run
    fpe,             \* the IEEE exceptions signalled so far
    mc_results,      \* main's mc_results, unset before the simulator returns
    matrix_results,  \* main's matrix_results, unset before the benchmark returns
    agg,             \* main's analytical_price, pricing_error, error_percentage
    frames,          \* main's results_summary and terminal_stats DataFrames
    stdout,          \* the lines printed, by tag
    events,          \* history: the steps completed, in order
    attempts,        \* history: how many times each step was entered
    dir_at_start,    \* history: whether OUTPUT_DIR existed when the script started
    error,           \* the exception raised, None if none
    exit_code        \* the process's exit status: << >> while it runs, then <<status>>

vars == <<pc, params, dir_exists, files, rng, heap, locals, fpe, mc_results,
          matrix_results, agg, frames, stdout, events, attempts, dir_at_start, error,
          exit_code>>

\* A table left in OUTPUT_DIR by an earlier run of another version.
StaleTable == [header |-> <<"old">>, rows |-> <<<<"x">>, <<"y">>>>]

Steps == {"makedirs", "simulator", "benchmark", "aggregator", "write_summary",
          "write_terminal"}

InitCommon ==
    /\ rng = 0
    /\ heap = << >>
    /\ locals = << >>
    /\ fpe = {}
    /\ mc_results = Unset
    /\ matrix_results = Unset
    /\ agg = Unset
    /\ frames = << >>
    /\ stdout = << >>
    /\ events = << >>
    /\ attempts = [s \in Steps |-> 0]
    /\ error = None
    /\ exit_code = << >>

\* The script is started: main() with the simulator's defaults for the market
\* parameters and a configured number of paths and steps.
Init ==
    /\ pc = "main"
    /\ \E m \in {DefaultMarket}, n \in PathCounts, k \in StepCounts :
           params = [S0 |-> m.S0, K |-> m.K, T |-> m.T, r |-> m.r, sigma |-> m.sigma,
                     n_sims |-> n, n_steps |-> k]
    /\ \E d \in BOOLEAN :
           /\ dir_exists = d
           /\ dir_at_start = d
           /\ files \in (IF d THEN {<< >>, (OUTPUT_FILE :> StaleTable),
                                    (OUTPUT_FILE :> StaleTable) @@ (STATS_FILE :> StaleTable)}
                         ELSE {<< >>})
    /\ InitCommon

(***************************************************************************)
(* The heap: numpy arrays are owner buffers or views of one (base).        *)
(***************************************************************************)
ArrayLocals == {"Z", "diffusion", "price_paths", "ST", "payoffs", "A", "B", "C", "eigenvalues"}

\* The arrays the running function's locals and main's mc_results refer to.
Roots(loc, mc) ==
    (DOMAIN loc \cap ArrayLocals)
      \cup (IF IsSet(mc) THEN {mc.terminal_prices} ELSE {})

\* An array is alive while a root refers to it or a live view has it as base.
Live(h, roots) ==
    LET one == roots \cup { h[x].base : x \in { y \in roots \cap DOMAIN h : h[y].base # None } }
    IN  one \cup { h[x].base : x \in { y \in one \cap DOMAIN h : h[y].base # None } }

\* Reference counting frees what is no longer alive.
Collect(h, roots) == [x \in (DOMAIN h \cap Live(h, roots)) |-> h[x]]

Owner(shape, data) == [shape |-> shape, base |-> None, data |-> data]
View(shape, base)  == [shape |-> shape, base |-> base, data |-> << >>]

\* The entries of a vector: its own, or its base's last row for the view
\* price_paths[-1, :].
Entries(h, x) == IF h[x].base = None THEN h[x].data ELSE h[h[x].base].data

(***************************************************************************)
(* np.random's global generator: every draw of n variates advances the     *)
(* one state both the simulator and the benchmark draw from.               *)
(***************************************************************************)
Advance(state, n) == state + n

\* The block of variates drawn when the generator is in the given state.
Randn(state) == [drawn_at |-> state]

(***************************************************************************)
(* Exceptions: nothing in the script catches one.                          *)
(***************************************************************************)
\* A variant of Raise: main() wrapped in a handler that swallows the
\* exception, so that the interpreter ends as after a return.
RaiseSwallowed(exc) ==
    /\ error' = exc
    /\ pc' = "end"

Raise(exc) ==
    /\ error' = exc
    /\ pc' = "raised"

Say(tag) == stdout' = Append(stdout, tag)
Did(step) == events' = Append(events, step)
Enter(step) == attempts' = [attempts EXCEPT ![step] = @ + 1]

(***************************************************************************)
(* main(), up to the call of the simulator.                                *)
(***************************************************************************)
\* The statement main() goes to when a step is done: lines 112-188 in order.
AfterBenchFirst(step) ==
    CASE step = "banner"         -> "makedirs"
      [] step = "makedirs"       -> "call_bench"
      [] step = "benchmark"      -> "call_sim"
      [] step = "simulator"      -> "aggregate"
      [] step = "aggregator"     -> "write_summary"
      [] step = "write_summary"  -> "write_terminal"
      [] step = "write_terminal" -> "print_summary"
      [] step = "print_summary"  -> "end"

After(step) ==
    CASE step = "banner"         -> "makedirs"
      [] step = "makedirs"       -> "call_sim"
      [] step = "simulator"      -> "call_bench"
      [] step = "benchmark"      -> "aggregate"
      [] step = "aggregator"     -> "write_summary"
      [] step = "write_summary"  -> "write_terminal"
      [] step = "write_terminal" -> "print_summary"
      [] step = "print_summary"  -> "end"

\* The banner (lines 112-117).
MainBanner ==
    /\ pc = "main"
    /\ Say("banner")
    /\ pc' = After("banner")
    /\ UNCHANGED <<dir_at_start, params, dir_exists, files, rng, heap, locals, fpe, mc_results,
                   matrix_results, agg, frames, events, attempts, error, exit_code>>

\* os.makedirs(OUTPUT_DIR, exist_ok=True): creates the directory when it is
\* absent, or raises OSError when it cannot; leaves an existing one alone.
Makedirs ==
    /\ pc = "makedirs"
    /\ Enter("makedirs")
    /\ \/ /\ dir_exists' = TRUE
          /\ Did("makedirs")
          /\ pc' = After("makedirs")
          /\ UNCHANGED error
       \/ /\ ~dir_exists
          /\ Raise("OSError")
          /\ UNCHANGED <<dir_exists, events>>
    /\ UNCHANGED <<dir_at_start, params, files, rng, heap, locals, fpe, mc_results, matrix_results,
                   agg, frames, stdout, exit_code>>

(***************************************************************************)
(* monte_carlo_option_pricing (lines 20-78).                               *)
(***************************************************************************)
\* Lines 37-41: the start message, then dt = T / n_steps.
SimEnter ==
    /\ pc = "call_sim"
    /\ Enter("simulator")
    /\ Say("sim_start")
    /\ Did("sim_start")
    /\ \/ /\ params.n_steps = 0
          /\ Raise("ZeroDivisionError")
          /\ UNCHANGED <<locals, fpe>>
       \/ /\ params.n_steps # 0
          /\ \E d \in DtSet(params.T, params.n_steps) :
                /\ locals' = ("dt" :> d.v)
                /\ fpe' = fpe \cup d.e
          /\ pc' = "sim_draw"
          /\ UNCHANGED error
    /\ UNCHANGED <<dir_at_start, params, dir_exists, files, rng, heap, mc_results, matrix_results,
                   agg, frames, exit_code>>

\* Line 45: Z = np.random.standard_normal((n_steps, n_sims)).
SimDraw ==
    /\ pc = "sim_draw"
    /\ \/ /\ (params.n_steps < 0 \/ params.n_sims < 0)
          /\ Raise("ValueError")
          /\ UNCHANGED <<rng, heap, locals>>
       \/ /\ params.n_steps >= 0 /\ params.n_sims >= 0
          /\ Raise("MemoryError")
          /\ UNCHANGED <<rng, heap, locals>>
       \/ /\ params.n_steps >= 0 /\ params.n_sims >= 0
          /\ rng' = Advance(rng, params.n_steps * params.n_sims)
          /\ heap' = ("Z" :> Owner(<<params.n_steps, params.n_sims>>, Randn(rng))) @@ heap
          /\ locals' = ("Z" :> "Z") @@ locals
          /\ pc' = "sim_paths"
          /\ UNCHANGED error
    /\ UNCHANGED <<dir_at_start, params, dir_exists, files, fpe, mc_results, matrix_results, agg,
                   frames, stdout, events, attempts, exit_code>>

\* Lines 49-53: drift, diffusion and price_paths.  The temporaries of line 53
\* are freed when the statement ends.
SimPaths ==
    /\ pc = "sim_paths"
    /\ \/ /\ params.sigma # "zero"
          /\ Raise("OverflowError")
          /\ UNCHANGED <<heap, locals, fpe>>
       \/ \E drift \in DriftSet(params.r, params.sigma, locals["dt"]),
             vol \in VolSet(params.sigma, locals["dt"]) :
            \E col \in [1 .. params.n_sims ->
                          ColumnSet(params.n_steps, drift.v, vol.v, params.S0)] :
                /\ heap' = ("diffusion" :> Owner(<<params.n_steps, params.n_sims>>, << >>))
                             @@ ("price_paths" :> Owner(<<params.n_steps, params.n_sims>>,
                                                        [i \in 1 .. params.n_sims |-> col[i].v]))
                             @@ heap
                /\ locals' = ("drift" :> drift.v) @@ ("diffusion" :> "diffusion")
                               @@ ("price_paths" :> "price_paths") @@ locals
                /\ fpe' = fpe \cup drift.e \cup vol.e \cup FlagsOf(col)
                /\ pc' = "sim_payoff"
                /\ UNCHANGED error
    /\ UNCHANGED <<dir_at_start, params, dir_exists, files, rng, mc_results, matrix_results, agg,
                   frames, stdout, events, attempts, exit_code>>

\* Lines 56-59: ST = price_paths[-1, :] is a view of price_paths;
\* payoffs = np.maximum(ST - K, 0) is a new array.
SimPayoff ==
    /\ pc = "sim_payoff"
    /\ LET withST == ("ST" :> View(<<params.n_sims>>, "price_paths")) @@ heap
           pay    == [i \in 1 .. params.n_sims |->
                        PayoffSet(Entries(withST, "ST")[i], params.K)]
       IN  \E f \in [1 .. params.n_sims -> UNION { pay[i] : i \in 1 .. params.n_sims }] :
               /\ \A i \in 1 .. params.n_sims : f[i] \in pay[i]
               /\ heap' = ("payoffs" :> Owner(<<params.n_sims>>,
                                              [i \in 1 .. params.n_sims |-> f[i].v]))
                            @@ withST
               /\ fpe' = fpe \cup FlagsOf(f)
    /\ locals' = ("ST" :> "ST") @@ ("payoffs" :> "payoffs") @@ locals
    /\ pc' = "sim_stats"
    /\ UNCHANGED <<dir_at_start, params, dir_exists, files, rng, mc_results, matrix_results, agg,
                   frames, stdout, events, attempts, error, exit_code>>

\* Lines 62-66: option_price, std_error and confidence_interval.
SimStats ==
    /\ pc = "sim_stats"
    /\ \E price \in OptionPriceSet(heap["payoffs"].data, params.r, params.T),
          se \in StdErrorSet(heap["payoffs"].data, params.n_sims) :
         \E ci \in FMulBig(se.v) :
             /\ locals' = ("option_price" :> price.v) @@ ("std_error" :> se.v)
                            @@ ("confidence_interval" :> ci.v) @@ locals
             /\ fpe' = fpe \cup price.e \cup se.e \cup ci.e
    /\ pc' = "sim_return"
    /\ UNCHANGED <<dir_at_start, params, dir_exists, files, rng, heap, mc_results, matrix_results,
                   agg, frames, stdout, events, attempts, error, exit_code>>

\* Lines 68-78: the result dict is returned and the frame's locals dropped.
SimReturn ==
    /\ pc = "sim_return"
    /\ Say("sim_done")
    /\ Did("sim_end")
    /\ mc_results' = [option_price          |-> locals["option_price"],
                      std_error             |-> locals["std_error"],
                      confidence_interval_95 |-> locals["confidence_interval"],
                      elapsed_time          |-> "elapsed",
                      simulations           |-> params.n_sims,
                      terminal_prices       |-> locals["ST"]]
    /\ locals' = << >>
    /\ heap' = Collect(heap, Roots(locals', mc_results'))
    /\ pc' = After("simulator")
    /\ UNCHANGED <<dir_at_start, params, dir_exists, files, rng, fpe, matrix_results, agg, frames,
                   attempts, error, exit_code>>

(***************************************************************************)
(* matrix_computation_benchmark (lines 80-106).  The matrices are kept as  *)
(* terms: a block of the random stream, the product of two blocks, the     *)
(* eigenvalues of a product's leading block.                               *)
(***************************************************************************)
\* np.dot(A, B), np.linalg.eigvals(C[:1000, :1000]) and np.max(np.abs(.)) as terms.
Dot(A, B)      == [dot |-> <<A, B>>]
Eigvals(C, n)  == [eigvals |-> C, block |-> n]
MaxAbs(values) == [max_abs |-> values]

\* Lines 85-91: the start message, then A and B from np.random.randn.
BenchEnter ==
    /\ pc = "call_bench"
    /\ Enter("benchmark")
    /\ Say("bench_start")
    /\ Did("bench_start")
    /\ \/ /\ Raise("MemoryError")
          /\ UNCHANGED <<rng, heap, locals>>
       \/ /\ rng' = Advance(Advance(rng, size * size), size * size)
          /\ heap' = ("A" :> Owner(<<size, size>>, Randn(rng)))
                       @@ ("B" :> Owner(<<size, size>>, Randn(Advance(rng, size * size))))
                       @@ heap
          /\ locals' = ("A" :> "A") @@ ("B" :> "B")
          /\ pc' = "bench_compute"
          /\ UNCHANGED error
    /\ UNCHANGED <<dir_at_start, params, dir_exists, files, fpe, mc_results, matrix_results, agg,
                   frames, exit_code>>

\* Lines 94-97: C = np.dot(A, B), eigenvalues = np.linalg.eigvals(C[:1000, :1000]),
\* which raises LinAlgError when the iteration does not converge.
BenchCompute ==
    /\ pc = "bench_compute"
    /\ \/ /\ Raise("LinAlgError")
          /\ heap' = ("C" :> Owner(<<size, size>>, Dot(heap["A"].data, heap["B"].data))) @@ heap
          /\ locals' = ("C" :> "C") @@ locals
       \/ /\ LET C == Owner(<<size, size>>, Dot(heap["A"].data, heap["B"].data))
             IN  heap' = ("C" :> C)
                           @@ ("eigenvalues" :> Owner(<<eig_block>>, Eigvals(C.data, eig_block)))
                           @@ heap
          /\ locals' = ("C" :> "C") @@ ("eigenvalues" :> "eigenvalues") @@ locals
          /\ pc' = "bench_return"
          /\ UNCHANGED error
    /\ UNCHANGED <<dir_at_start, params, dir_exists, files, rng, fpe, mc_results, matrix_results, agg,
                   frames, stdout, events, attempts, exit_code>>

\* Lines 99-106: the result dict is returned and the frame's locals dropped.
BenchReturn ==
    /\ pc = "bench_return"
    /\ Say("bench_done")
    /\ Did("bench_end")
    /\ matrix_results' = [matrix_size    |-> size,
                          elapsed_time   |-> "elapsed",
                          max_eigenvalue |-> MaxAbs(heap["eigenvalues"].data)]
    /\ locals' = << >>
    /\ heap' = Collect(heap, Roots(locals', mc_results))
    /\ pc' = After("benchmark")
    /\ UNCHANGED <<dir_at_start, params, dir_exists, files, rng, fpe, mc_results, agg, frames,
                   attempts, error, exit_code>>

(***************************************************************************)
(* The aggregation and the two tables (lines 128-173).                     *)
(***************************************************************************)
\* analytical_price for the constants of line 129 (about 8.02).
AnalyticalPrice == "pos"

\* pricing_error = abs(mc_results['option_price'] - analytical_price)
PricingErrorSet(option_price) == Map(FSub(option_price, AnalyticalPrice), FAbs)

\* error_percentage = (pricing_error / analytical_price) * 100
ErrorPercentageSet(pricing_error) ==
    Then(FDiv(pricing_error, AnalyticalPrice), FMulBig)

\* Lines 128-136.
AggCompare ==
    /\ pc = "aggregate"
    /\ Enter("aggregator")
    /\ Did("agg_start")
    /\ \E pe \in PricingErrorSet(mc_results.option_price) :
         \E pct \in ErrorPercentageSet(pe.v) :
             /\ agg' = [analytical_price |-> AnalyticalPrice,
                        pricing_error    |-> pe.v,
                        error_percentage |-> pct.v]
             /\ fpe' = fpe \cup pe.e \cup pct.e
    /\ pc' = "agg_summary"
    /\ UNCHANGED <<dir_at_start, params, dir_exists, files, rng, heap, locals, mc_results,
                   matrix_results, frames, stdout, error, exit_code>>

\* The dict literal of lines 139-153, as its (key, value) pairs in order.
SummaryDict(mc, mx, a) ==
    << <<"timestamp", "now">>,
       <<"monte_carlo_simulations", mc.simulations>>,
       <<"mc_option_price", mc.option_price>>,
       <<"mc_std_error", mc.std_error>>,
       <<"mc_ci_95", mc.confidence_interval_95>>,
       <<"mc_elapsed_time_sec", mc.elapsed_time>>,
       <<"analytical_bs_price", a.analytical_price>>,
       <<"pricing_error", a.pricing_error>>,
       <<"error_percentage", a.error_percentage>>,
       <<"matrix_computation_size", mx.matrix_size>>,
       <<"matrix_elapsed_time_sec", mx.elapsed_time>>,
       <<"matrix_max_eigenvalue", mx.max_eigenvalue>>,
       <<"total_elapsed_time_sec", <<mc.elapsed_time, "+", mx.elapsed_time>> >> >>

\* The dict literal of lines 156-166; the statistics are kept as terms over
\* the terminal prices.
TerminalDict(prices) ==
    << <<"metric", "Terminal Stock Price Distribution">>,
       <<"mean", [stat |-> "mean", of |-> prices]>>,
       <<"median", [stat |-> "median", of |-> prices]>>,
       <<"std", [stat |-> "std", of |-> prices]>>,
       <<"min", [stat |-> "min", of |-> prices]>>,
       <<"max", [stat |-> "max", of |-> prices]>>,
       <<"percentile_25", [stat |-> "percentile_25", of |-> prices]>>,
       <<"percentile_75", [stat |-> "percentile_75", of |-> prices]>>,
       <<"percentile_95", [stat |-> "percentile_95", of |-> prices]>> >>

\* pd.DataFrame(list of dicts): the columns are the keys in order, one row
\* per dict.
DataFrame(dicts) ==
    [columns |-> [j \in 1 .. Len(dicts[1]) |-> dicts[1][j][1]],
     rows    |-> [i \in 1 .. Len(dicts) |-> [j \in 1 .. Len(dicts[i]) |-> dicts[i][j][2]]]]

\* A variant of ToCsv: to_csv with its default index=True, which adds the
\* row label as a first, unnamed column.
ToCsvWithIndex(df) ==
    [header |-> <<"">> \o df.columns,
     rows   |-> [i \in 1 .. Len(df.rows) |-> <<"label">> \o df.rows[i]]]

\* DataFrame.to_csv(path, index=False): the header line, then one line per row.
ToCsv(df) == [header |-> df.columns, rows |-> df.rows]

\* A variant of WriteFile: the file opened with mode "a", which keeps what
\* it held and adds the table's lines after it.
WriteFileAppend(fs, name, table) ==
    IF name \in DOMAIN fs
    THEN (name :> [header |-> fs[name].header,
                   rows   |-> fs[name].rows \o <<table.header>> \o table.rows]) @@ fs
    ELSE (name :> table) @@ fs

\* open(path, "w") replaces what the file held.
WriteFile(fs, name, table) == (name :> table) @@ fs

EmptyTable == [header |-> << >>, rows |-> << >>]

\* Lines 139-153.
AggSummary ==
    /\ pc = "agg_summary"
    /\ frames' = ("results_summary" :> DataFrame(<<SummaryDict(mc_results, matrix_results, agg)>>))
    /\ pc' = "agg_terminal"
    /\ UNCHANGED <<dir_at_start, params, dir_exists, files, rng, heap, locals, fpe, mc_results,
                   matrix_results, agg, stdout, events, attempts, error, exit_code>>

\* Lines 156-166: np.min raises ValueError on an empty vector.
AggTerminal ==
    /\ pc = "agg_terminal"
    /\ LET prices == Entries(heap, mc_results.terminal_prices)
       IN  \/ /\ Len(prices) = 0
              /\ Raise("ValueError")
              /\ UNCHANGED <<frames, events>>
           \/ /\ Len(prices) > 0
              /\ frames' = ("terminal_stats" :> DataFrame(<<TerminalDict(prices)>>)) @@ frames
              /\ Did("aggregated")
              /\ pc' = After("aggregator")
              /\ UNCHANGED error
    /\ UNCHANGED <<dir_at_start, params, dir_exists, files, rng, heap, locals, fpe, mc_results,
                   matrix_results, agg, stdout, attempts, exit_code>>

\* to_csv opens the file for writing, which fails when the directory is
\* missing or not writable, and may fail while writing.
SaveCsv(step, name, table) ==
    /\ Enter(step)
    /\ \/ /\ dir_exists
          /\ files' = WriteFile(files, name, table)
          /\ Did(step)
          /\ pc' = After(step)
          /\ UNCHANGED error
       \/ /\ Raise("OSError")
          /\ files' \in {files} \cup (IF dir_exists THEN {WriteFile(files, name, EmptyTable)}
                                      ELSE {})
          /\ UNCHANGED events
    /\ UNCHANGED <<dir_at_start, params, dir_exists, rng, heap, locals, fpe, mc_results,
                   matrix_results, agg, frames, stdout, exit_code>>

\* Line 169: results_summary.to_csv(OUTPUT_FILE, index=False).
WriteSummary ==
    /\ pc = "write_summary"
    /\ SaveCsv("write_summary", OUTPUT_FILE, ToCsv(frames["results_summary"]))

\* Lines 170-173: terminal_stats.to_csv(.../terminal_price_stats.csv, index=False).
WriteTerminal ==
    /\ pc = "write_terminal"
    /\ SaveCsv("write_terminal", STATS_FILE, ToCsv(frames["terminal_stats"]))

\* Lines 176-188: the results summary on standard output.
PrintSummary ==
    /\ pc = "print_summary"
    /\ Say("summary")
    /\ pc' = After("print_summary")
    /\ UNCHANGED <<dir_at_start, params, dir_exists, files, rng, heap, locals, fpe, mc_results,
                   matrix_results, agg, frames, events, attempts, error, exit_code>>

\* The interpreter ends: status 0 when main() returned, a traceback and
\* status 1 when an exception reached the top level.
Exit ==
    /\ pc \in {"end", "raised"}
    /\ exit_code' = (IF pc = "end" THEN <<0>> ELSE <<1>>)
    /\ stdout' = (IF pc = "end" THEN stdout ELSE Append(stdout, "traceback"))
    /\ pc' = "exited"
    /\ UNCHANGED <<dir_at_start, params, dir_exists, files, rng, heap, locals, fpe, mc_results,
                   matrix_results, agg, frames, events, attempts, error>>

Next ==
    \/ MainBanner
    \/ Makedirs
    \/ SimEnter
    \/ SimDraw
    \/ SimPaths
    \/ SimPayoff
    \/ SimStats
    \/ SimReturn
    \/ BenchEnter
    \/ BenchCompute
    \/ BenchReturn
    \/ AggCompare
    \/ AggSummary
    \/ AggTerminal
    \/ WriteSummary
    \/ WriteTerminal
    \/ PrintSummary
    \/ Exit

Spec == Init /\ [][Next]_vars

(***************************************************************************)
(* The simulator called on its own, with any finite market parameters.    *)
(***************************************************************************)
SimInit ==
    /\ pc = "call_sim"
    /\ \E m \in AnyMarket, n \in PathCounts, k \in StepCounts :
           params = [S0 |-> m.S0, K |-> m.K, T |-> m.T, r |-> m.r, sigma |-> m.sigma,
                     n_sims |-> n, n_steps |-> k]
    /\ dir_exists = FALSE
    /\ dir_at_start = FALSE
    /\ files = << >>
    /\ InitCommon

SimNext ==
    \/ SimEnter
    \/ SimDraw
    \/ SimPaths
    \/ SimPayoff
    \/ SimStats
    \/ SimReturn

SimSpec == SimInit /\ [][SimNext]_vars

(***************************************************************************)
(* Properties.                                                             *)
(***************************************************************************)
Range(seq) == { seq[i] : i \in DOMAIN seq }

IsPrefix(a, b) == Len(a) <= Len(b) /\ \A i \in 1 .. Len(a) : a[i] = b[i]

SimulatorInvoked == attempts["simulator"] >= 1

\* C1: when the simulator is invoked with n_sims <= 0 or n_steps <= 0 it fails
\* with InvalidParameter before any simulation work: no variate is drawn, no
\* path table is computed and no result record is produced.
C1_InvalidParameterFailsFast ==
    (SimulatorInvoked /\ (params.n_sims <= 0 \/ params.n_steps <= 0))
        => /\ error = "InvalidParameter"
           /\ rng = 0
           /\ "price_paths" \notin DOMAIN heap
           /\ ~IsSet(mc_results)

\* The thirteen columns of Output Table 1, by the names the script gives them:
\* timestamp, simulation count, simulated price, standard error,
\* confidence-interval half-width, simulation elapsed time, analytical price,
\* absolute error, relative error %, matrix benchmark size, matrix elapsed
\* time, max eigenvalue magnitude, total elapsed time.
Table1Columns ==
    {"timestamp", "monte_carlo_simulations", "mc_option_price", "mc_std_error", "mc_ci_95",
     "mc_elapsed_time_sec", "analytical_bs_price", "pricing_error", "error_percentage",
     "matrix_computation_size", "matrix_elapsed_time_sec", "matrix_max_eigenvalue",
     "total_elapsed_time_sec"}

\* A table with one header row naming exactly the given columns, each once,
\* and exactly one data row with a value for each.
OneRowTable(t, columns) ==
    /\ Range(t.header) = columns
    /\ Len(t.header) = Cardinality(columns)
    /\ Len(t.rows) = 1
    /\ Len(t.rows[1]) = Len(t.header)

\* C2: once the summary table is written, and so in every successful run,
\* analysis_results.csv holds one header row and one data row whose columns
\* are exactly the thirteen of Output Table 1.
C2_SummaryTableShape ==
    ("write_summary" \in Range(events))
        => /\ "analysis_results.csv" \in DOMAIN files
           /\ OneRowTable(files["analysis_results.csv"], Table1Columns)

C2_Witness ==
    /\ exit_code = <<0>>
    /\ params.n_sims = MaxPaths
    /\ dir_at_start
    /\ OneRowTable(files["analysis_results.csv"], Table1Columns)

\* The statistics of the Terminal Distribution Row.
TerminalStatColumns ==
    {"mean", "median", "std", "min", "max", "percentile_25", "percentile_75", "percentile_95"}

\* C3 as stated: terminal_price_stats.csv holds one header row and one data
\* row whose columns are exactly the eight statistics, none extra.
C3_TerminalTableOnlyStatistics ==
    ("write_terminal" \in Range(events))
        => /\ "terminal_price_stats.csv" \in DOMAIN files
           /\ OneRowTable(files["terminal_price_stats.csv"], TerminalStatColumns)

\* C3 as amended: terminal_price_stats.csv holds one header row and one data
\* row whose columns are exactly the label column metric and the eight
\* statistics.
C3_TerminalTableShape ==
    ("write_terminal" \in Range(events))
        => /\ "terminal_price_stats.csv" \in DOMAIN files
           /\ OneRowTable(files["terminal_price_stats.csv"],
                          {"metric"} \cup TerminalStatColumns)
           /\ files["terminal_price_stats.csv"].header[1] = "metric"

C3_Witness ==
    /\ exit_code = <<0>>
    /\ dir_at_start
    /\ Len(files["terminal_price_stats.csv"].header) = 9

\* C4: every run that ends successfully ends with the output directory in
\* place, created if it was absent at the start, and holding both
\* analysis_results.csv and terminal_price_stats.csv as this run wrote them.
C4_OutputsExistOnSuccess ==
    /\ (dir_at_start => dir_exists)
    /\ (exit_code = <<0>>)
          => /\ dir_exists
             /\ {"analysis_results.csv", "terminal_price_stats.csv"} \subseteq DOMAIN files
             /\ files["analysis_results.csv"] = ToCsv(frames["results_summary"])
             /\ files["terminal_price_stats.csv"] = ToCsv(frames["terminal_stats"])

C4_Witness ==
    /\ exit_code = <<0>>
    /\ ~dir_at_start
    /\ dir_exists
    /\ DOMAIN files = {"analysis_results.csv", "terminal_price_stats.csv"}

\* Valid Simulation Parameters: every value strictly positive, the rate zero
\* or positive, the counts positive integers.
ValidParams ==
    /\ params.S0 = "pos" /\ params.K = "pos" /\ params.T = "pos" /\ params.sigma = "pos"
    /\ params.r \in {"zero", "pos"}
    /\ params.n_sims >= 1 /\ params.n_steps >= 1

NonNegativeResults ==
    /\ ("payoffs" \in DOMAIN heap) =>
           \A i \in DOMAIN heap["payoffs"].data : GeZero(heap["payoffs"].data[i])
    /\ IsSet(mc_results) => (GeZero(mc_results.option_price) /\ GeZero(mc_results.std_error))

\* C5 as stated: for valid parameters and every outcome of the draws, every
\* payoff is >= 0 and the result has option_price >= 0 and std_error >= 0.
C5_NonNegativeAlways == ValidParams => NonNegativeResults

\* C5 as amended: for valid parameters and every outcome of the draws, when
\* no floating-point operation of the simulation overflows, every payoff is
\* >= 0 and the result has option_price >= 0 and std_error >= 0.
C5_NonNegativeWithoutOverflow ==
    (ValidParams /\ "overflow" \notin fpe) => NonNegativeResults

C5_Witness ==
    /\ ValidParams
    /\ params.n_sims = MaxPaths
    /\ "overflow" \notin fpe
    /\ IsSet(mc_results)
    /\ mc_results.option_price = "pos"
    /\ mc_results.std_error = "pos"

TerminalPrices == Entries(heap, mc_results.terminal_prices)

\* C6 as stated: the result's terminal_prices has exactly n_sims entries,
\* each strictly positive, for any finite parameters.
C6_TerminalPricesPositive ==
    IsSet(mc_results) =>
        /\ Len(TerminalPrices) = params.n_sims
        /\ \A i \in DOMAIN TerminalPrices : GtZero(TerminalPrices[i])

\* C6 as amended: the result's terminal_prices has exactly n_sims entries,
\* and each is strictly positive when the initial price is strictly positive
\* and no floating-point operation of the simulation overflows, underflows
\* or is invalid.
C6_TerminalPricesPositiveInRange ==
    IsSet(mc_results) =>
        /\ Len(TerminalPrices) = params.n_sims
        /\ (params.S0 = "pos" /\ fpe = {})
              => \A i \in DOMAIN TerminalPrices : GtZero(TerminalPrices[i])

C6_Witness ==
    /\ IsSet(mc_results)
    /\ params.S0 = "pos"
    /\ params.r = "neg"
    /\ fpe = {}
    /\ params.n_sims = MaxPaths
    /\ params.n_steps = MaxSteps
    /\ \A i \in DOMAIN TerminalPrices : TerminalPrices[i] = "pos"

\* The steps of a run in the order main() takes them, and the event that
\* marks each one complete.
StepOrder == <<"makedirs", "simulator", "benchmark", "aggregator", "write_summary",
               "write_terminal">>

DoneEvent(step) ==
    CASE step = "simulator"  -> "sim_end"
      [] step = "benchmark"  -> "bench_end"
      [] step = "aggregator" -> "aggregated"
      [] OTHER               -> step

Completed(step) == DoneEvent(step) \in Range(events)

\* C7: the process exits 0 only when every step has completed; an error in
\* any step is fatal: it is not caught (it ends the run with a non-zero
\* status), the failing step is entered once only, and no later step runs.
C7_ErrorsAreFatal ==
    /\ \A s \in Steps : attempts[s] <= 1
    /\ (exit_code = <<0>>) => (error = None /\ \A s \in Steps : Completed(s))
    /\ (error # None) =>
          /\ pc \in {"raised", "exited"}
          /\ exit_code \in {<< >>, <<1>>}
          /\ (pc = "exited" => exit_code = <<1>>)
          /\ \E k \in DOMAIN StepOrder :
                /\ \A j \in 1 .. k : attempts[StepOrder[j]] = 1
                /\ \A j \in 1 .. (k - 1) : Completed(StepOrder[j])
                /\ \A j \in k .. Len(StepOrder) : ~Completed(StepOrder[j])
                /\ \A j \in (k + 1) .. Len(StepOrder) : attempts[StepOrder[j]] = 0

C7_Witness ==
    /\ error = "OSError"
    /\ attempts["write_terminal"] = 1
    /\ exit_code = <<1>>

EventOrder == <<"makedirs", "sim_start", "sim_end", "bench_start", "bench_end", "agg_start",
                "aggregated", "write_summary", "write_terminal">>

\* C8: the simulator, the benchmark and the aggregator run in that order,
\* each to completion before the next starts; no table is written before
\* both result records exist, and the summary table is written before the
\* terminal-distribution table.
C8_SequentialOrder ==
    /\ IsPrefix(events, EventOrder)
    /\ (Range(events) \cap {"write_summary", "write_terminal"} # {})
          => (IsSet(mc_results) /\ IsSet(matrix_results))
    /\ ("bench_start" \in Range(events)) => IsSet(mc_results)
    /\ ("agg_start" \in Range(events)) => IsSet(matrix_results)

C8_Witness == events = EventOrder

\* What the benchmark returns when it is entered with the generator in the
\* given state.
BenchmarkFrom(state) ==
    MaxAbs(Eigvals(Dot(Randn(state), Randn(Advance(state, size * size))), eig_block))

\* The simulator was given positive counts.
ValidCounts == params.n_sims >= 1 /\ params.n_steps >= 1

\* C9: the benchmark reads nothing the simulator writes: its result in this
\* run is the one it returns in every run from the same initial generator
\* state (0 here), whatever n_sims and n_steps the simulator is given: the
\* same matrices are drawn and the same max_eigenvalue returned.
C9_BenchmarkIndependentOfSimulator ==
    (ValidCounts /\ IsSet(matrix_results)) =>
        \A n \in 1 .. MaxPaths, k \in 1 .. MaxSteps :
            matrix_results.max_eigenvalue = BenchmarkFrom(Advance(0, k * n))

\* C10: after the simulator has returned, nothing reachable from the
\* Simulation Result keeps the n_steps x n_sims table alive: the only array
\* retained is the terminal price vector of n_sims entries.  (Stated for a
\* table of more than one row, which is more than its terminal row.)
C10_EnsembleReleasedAfterReturn ==
    (ValidCounts /\ params.n_steps >= 2 /\ IsSet(mc_results)) =>
        \A x \in Live(heap, {mc_results.terminal_prices}) :
            heap[x].shape = <<params.n_sims>>
=============================================================================
